---- MODULE Spec2Model ----
(***************************************************************************)
(* A model of src/main.rs: the shadow model (is_shadowed), the income      *)
(* computation (calculate_sun_points), the transition function             *)
(* (apply_action), the evaluation (evaluate_state), the search             *)
(* (get_ucb1_score, get_best_node, run_mcts) and the turn loop of main.    *)
(*                                                                         *)
(* f32 values are modelled as exact rationals scaled by ScoreScale; u8     *)
(* additions overflow at U8Mod: the build decides whether that panics      *)
(* (overflow checks on) or wraps (overflow checks off).                    *)
(***************************************************************************)
EXTENDS Integers, Sequences, FiniteSets, TLC

VARIABLES
    overflow_checks, \* build profile: TRUE = arithmetic overflow panics, FALSE = wraps
    pc,              \* main/run_mcts position: "read", "search", or where it panicked:
                     \* "overflow_panic" (lines 203-219), "unwrap_panic" (line 463)
    game_state,      \* main's game_state
    root_node,       \* run_mcts: mcts.root_node
    node,            \* run_mcts: the loop body's local `node` at the end of the latest iteration
    iter,            \* run_mcts: iterations of `for _ in 0..n` completed
    n,               \* run_mcts: the iteration budget
    result,          \* None, or Some(action) returned by run_mcts to main
    st_in,           \* apply_action harness: the place passed as &mut, before the call
    st_after,        \* apply_action harness: the same place after the call
    st_out,          \* apply_action harness: the returned GameState
    st_action,       \* apply_action harness: None, or Some(action) of the latest call
    st_init,         \* apply_action harness: the state the chain started from
    st_completes,    \* apply_action harness: number of Complete actions applied so far
    st_len,          \* apply_action harness: number of apply_action calls so far
    st_panicked,     \* apply_action harness: the latest call panicked
    fn_args,         \* function harness: the arguments of the function under study
    fn_ret           \* function harness: None, or Some(value the call returned)

mctsVars == <<pc, game_state, root_node, node, iter, n, result>>
applyVars == <<st_in, st_after, st_out, st_action, st_init, st_completes, st_len, st_panicked>>
fnVars == <<fn_args, fn_ret>>
vars == <<overflow_checks, mctsVars, applyVars, fnVars>>

----------------------------------------------------------------------------
(* Bounds of the model *)

NumCells == 2      \* cells of the board read at startup (the game's board has 37)
MaxTrees == 2      \* trees in a turn's tree list
MaxActions == 2    \* entries of a turn's legal-action list
MaxIter == 2       \* largest iteration budget n given to run_mcts
MaxChain == 2      \* longest chain of apply_action calls of the harness
ShadowLen == 4     \* cells of the board the shadow model is studied on
ShadowTrees == 3   \* trees of a forest the shadow model is studied on
MaxChildren == 2   \* children of a node get_best_node is studied on
MaxVisits == 2     \* largest visit count of a node get_best_node is studied on

(* Program constants *)

U8Mod == 256           \* u8: my_sun, opp_sun, day, nutrients
MaxSize == 3           \* tree sizes are 0..3
ScoreScale == 30000    \* an f32 value x is modelled as the integer x * ScoreScale
F32Max == 2000000000   \* stands for f32::MAX: above every score the model reaches
NaN == -2000000001     \* stands for the f32 NaN
TerminalDay == 24      \* the game lasts 24 days, 0-23

None == <<>>
Some(x) == <<x>>

Cells == 0 .. NumCells - 1

----------------------------------------------------------------------------
(* Board: main, lines 476-504.  The model's board is a line of NumCells    *)
(* cells along the direction 0 / direction 3 axis; -1 is "no cell".        *)

Neighbors(i) ==
    [d \in 1 .. 6 |->
        IF d = 1 THEN (IF i + 1 < NumCells THEN i + 1 ELSE -1)
        ELSE IF d = 4 THEN i - 1
        ELSE -1]

BoardCells ==
    [k \in 1 .. NumCells |->
        [index |-> k - 1, richness |-> 3 - ((k - 1) % 3), neighbors |-> Neighbors(k - 1)]]

(* GameState::new(), lines 23-36 *)
NewGameState ==
    [day |-> 0, nutrients |-> 0, cells |-> <<>>, possible_actions |-> <<>>,
     trees |-> <<>>, my_sun |-> 0, my_score |-> 0, opp_sun |-> 0, opp_score |-> 0,
     opponent_is_waiting |-> FALSE]

----------------------------------------------------------------------------
(* Shadow model: is_shadowed, lines 57-118 *)

\* .iter().find(|x| x.<field> == value): the first match, or the default
FindByCell(trees, cell_index, default) ==
    IF \E i \in 1 .. Len(trees) : trees[i].cell_index = cell_index
    THEN trees[CHOOSE i \in 1 .. Len(trees) :
                  /\ trees[i].cell_index = cell_index
                  /\ \A j \in 1 .. i - 1 : trees[j].cell_index # cell_index]
    ELSE default

FindCell(cells, cell_index, default) ==
    IF \E i \in 1 .. Len(cells) : cells[i].index = cell_index
    THEN cells[CHOOSE i \in 1 .. Len(cells) :
                  /\ cells[i].index = cell_index
                  /\ \A j \in 1 .. i - 1 : cells[j].index # cell_index]
    ELSE default

DefaultCell == [index |-> -1, richness |-> 0, neighbors |-> <<-1, -1, -1, -1, -1, -1>>]

DefaultTree ==
    [cell_index |-> -1, size |-> 0, is_mine |-> FALSE, is_dormant |-> FALSE,
     is_shadowed |-> FALSE]

\* check_neighbor with `>` for the `>=` of line 101: a tree of the same size
\* does not shadow
RECURSIVE check_neighbor_strict(_, _, _, _)
check_neighbor_strict(gs, cell_index, count, tree_size) ==
    LET sun_direction == ((gs.day % 6) + 3) % 6
        cell == FindCell(gs.cells, cell_index, DefaultCell)
        neighbor_cell_index == cell.neighbors[sun_direction + 1]
        neighbor_tree == FindByCell(gs.trees, neighbor_cell_index, DefaultTree)
    IN  IF neighbor_cell_index = -1 THEN FALSE
        ELSE IF neighbor_tree.cell_index # -1 /\ neighbor_tree.size > tree_size THEN TRUE
        ELSE IF count > 1
             THEN check_neighbor_strict(gs, neighbor_cell_index, count - 1, tree_size)
             ELSE FALSE

RECURSIVE check_neighbor(_, _, _, _)
check_neighbor(gs, cell_index, count, tree_size) ==
    LET sun_direction == ((gs.day % 6) + 3) % 6
        cell == FindCell(gs.cells, cell_index, DefaultCell)
        neighbor_cell_index == cell.neighbors[sun_direction + 1]
        neighbor_tree == FindByCell(gs.trees, neighbor_cell_index, DefaultTree)
    IN  IF neighbor_cell_index = -1 THEN FALSE
        ELSE IF neighbor_tree.cell_index # -1 /\ neighbor_tree.size >= tree_size THEN TRUE
        ELSE IF count > 1
             THEN check_neighbor(gs, neighbor_cell_index, count - 1, tree_size)
             ELSE FALSE

\* is_shadowed with a count of 1 for the `count = tree.size` of line 62: only
\* the adjacent cell is looked at
is_shadowed_one_hop(gs, cell_index) ==
    IF \E i \in 1 .. Len(gs.trees) : gs.trees[i].cell_index = cell_index
    THEN LET tree == FindByCell(gs.trees, cell_index, DefaultTree)
         IN  check_neighbor(gs, cell_index, 1, tree.size)
    ELSE FALSE

is_shadowed(gs, cell_index) ==
    IF \E i \in 1 .. Len(gs.trees) : gs.trees[i].cell_index = cell_index
    THEN LET tree == FindByCell(gs.trees, cell_index, DefaultTree)
         IN  check_neighbor(gs, cell_index, tree.size, tree.size)
    ELSE FALSE

----------------------------------------------------------------------------
(* Actions: struct Action, lines 120-137 *)

Wait == [action_type |-> "Wait", source_cell_index |-> None, target_cell_index |-> None]
Grow(c) == [action_type |-> "Grow", source_cell_index |-> None, target_cell_index |-> Some(c)]
Complete(c) ==
    [action_type |-> "Complete", source_cell_index |-> None, target_cell_index |-> Some(c)]
Seed(s, t) ==
    [action_type |-> "Seed", source_cell_index |-> Some(s), target_cell_index |-> Some(t)]

----------------------------------------------------------------------------
(* Income: calculate_sun_points, lines 185-228.  The sums are u8: the      *)
(* result carries the wrapped sums and whether an addition overflowed.     *)

RECURSIVE SunLoop(_, _, _, _, _)
SunLoop(trees, i, my_sun, opp_sun, overflow) ==
    IF i > Len(trees) THEN [my_sun |-> my_sun, opp_sun |-> opp_sun, overflow |-> overflow]
    ELSE LET tree == trees[i]
             gain == IF ~tree.is_shadowed /\ tree.size \in 1 .. 3 THEN tree.size ELSE 0
             my == IF tree.is_mine THEN my_sun + gain ELSE my_sun
             opp == IF tree.is_mine THEN opp_sun ELSE opp_sun + gain
         IN  SunLoop(trees, i + 1, my % U8Mod, opp % U8Mod,
                     overflow \/ my >= U8Mod \/ opp >= U8Mod)

calculate_sun_points(gs) == SunLoop(gs.trees, 1, gs.my_sun, gs.opp_sun, FALSE)

----------------------------------------------------------------------------
(* Transition: apply_action, lines 238-309.  The function takes the state  *)
(* by &mut and returns a GameState: arg is the value of the caller's place *)
(* after the call, ret the returned value, panicked whether the call       *)
(* panicked (an overflowing addition in a build with overflow checks).     *)
(* Only the Wait arm has code; every other action type takes `_ => {}`.    *)

\* apply_action as it would be without the clone of line 239: the Wait arm
\* writes through the &mut reference
apply_action_in_place(gs, action, checks) ==
    LET sp == calculate_sun_points(gs)
        mutated == IF action.action_type = "Wait"
                   THEN [gs EXCEPT !.my_sun = sp.my_sun, !.opp_sun = sp.opp_sun]
                   ELSE gs
    IN  [arg |-> mutated, ret |-> mutated,
         panicked |-> action.action_type = "Wait" /\ sp.overflow /\ checks]

apply_action(gs, action, checks) ==
    LET new_game_state == gs
        sp == calculate_sun_points(new_game_state)
    IN  IF action.action_type = "Wait"
        THEN [arg |-> gs,
              ret |-> [new_game_state EXCEPT !.my_sun = sp.my_sun, !.opp_sun = sp.opp_sun],
              panicked |-> sp.overflow /\ checks]
        ELSE [arg |-> gs, ret |-> new_game_state, panicked |-> FALSE]

----------------------------------------------------------------------------
(* Evaluation: evaluate_state, lines 315-356.  With t3 = 3 * score + sun   *)
(* (three times a player's total score + sun / 3), the f32 results scaled  *)
(* by ScoreScale are integers: 1.0 is ScoreScale, x * 0.001 is 10 * (3x).  *)

CountTrees(trees, mine) ==
    Cardinality({i \in 1 .. Len(trees) : trees[i].is_mine = mine}) % U8Mod

evaluate_state(gs) ==
    LET my_score3 == 3 * gs.my_score + gs.my_sun
        opponent_score3 == 3 * gs.opp_score + gs.opp_sun
        my_tree_count == CountTrees(gs.trees, TRUE)
        opponent_tree_count == CountTrees(gs.trees, FALSE)
    IN  IF my_score3 > opponent_score3
        THEN LET diff3 == my_score3 - opponent_score3
             IN  IF diff3 > 15 THEN ScoreScale + (diff3 - 15) * 10
                               ELSE ScoreScale \div 2 + 1000 * diff3
        ELSE IF my_score3 < opponent_score3
        THEN LET diff3 == opponent_score3 - my_score3
             IN  IF diff3 > 15 THEN -ScoreScale - (diff3 - 15) * 10
                               ELSE -(ScoreScale \div 2) - 1000 * diff3
        ELSE IF my_tree_count > opponent_tree_count THEN ScoreScale \div 4 + 10 * my_score3
        ELSE IF my_tree_count < opponent_tree_count THEN -(ScoreScale \div 4) + 10 * my_score3
        ELSE 10 * my_score3

----------------------------------------------------------------------------
(* Search nodes: struct Node, lines 358-366.  parent is None or Some(a     *)
(* copy of the parent node), as Option<Box<Node>> owns its own copy.       *)

MakeNode(parent, gs) ==
    [parent |-> parent, children |-> <<>>, visit_count |-> 0, score |-> 0,
     game_state |-> gs, action |-> None]

\* f32 comparison a > b: false when either side is NaN
FGt(a, b) == a # NaN /\ b # NaN /\ a > b

\* ln(p) * 1000, rounded, for the visit counts the model can hold
LnMilli(p) ==
    CASE p = 1 -> 0
      [] p = 2 -> 693
      [] p = 3 -> 1099
      [] p = 4 -> 1386
      [] p = 5 -> 1609
      [] p = 6 -> 1792
      [] p = 7 -> 1946
      [] OTHER -> 2079

ISqrt(x) == CHOOSE r \in 0 .. 200 : r * r <= x /\ (r + 1) * (r + 1) > x

(* get_ucb1_score, lines 368-387.  ln(0) is -inf and sqrt(-inf) is NaN;   *)
(* for a parent visit count >= 2 the exploration term is rounded.          *)
get_ucb1_score(nd) ==
    IF nd.visit_count = 0 THEN F32Max
    ELSE LET parent_visit_count ==
                 IF nd.parent = None THEN 0 ELSE nd.parent[1].visit_count
         IN  IF parent_visit_count = 0 THEN NaN
             ELSE nd.score
                    + (ScoreScale \div 50) * ISqrt((10 * LnMilli(parent_visit_count))
                                                       \div nd.visit_count)

(* get_best_node, lines 389-415 *)
RECURSIVE BestLoop(_, _, _)
BestLoop(children, i, best_node) ==
    IF i > Len(children) THEN best_node
    ELSE BestLoop(children, i + 1,
                  IF FGt(get_ucb1_score(children[i]), get_ucb1_score(best_node))
                  THEN children[i] ELSE best_node)

get_best_node(nd) ==
    IF Len(nd.children) = 0 THEN nd
    ELSE BestLoop(nd.children, 1, nd.children[1])

----------------------------------------------------------------------------
(* run_mcts, lines 421-466 *)

\* lines 436-438: while node.children.len() > 0 { node = get_best_node(node) }
RECURSIVE Descend(_)
Descend(nd) == IF Len(nd.children) > 0 THEN Descend(get_best_node(nd)) ELSE nd

\* lines 451-456: the loop over possible_actions; every step applies the action
\* to new_node's own state and pushes a copy of new_node
RECURSIVE ExpandLoop(_, _, _, _, _)
ExpandLoop(new_node, possible_actions, i, children, checks) ==
    IF i > Len(possible_actions)
    THEN [children |-> children, panicked |-> FALSE]
    ELSE LET action == possible_actions[i]
             applied == apply_action(new_node.game_state, action, checks)
             next_node == [new_node EXCEPT !.action = Some(action),
                                           !.game_state = applied.ret,
                                           !.score = evaluate_state(applied.ret)]
         IN  IF applied.panicked
             THEN [children |-> children, panicked |-> TRUE]
             ELSE ExpandLoop(next_node, possible_actions, i + 1,
                             Append(children, next_node), checks)

\* lines 434-456: one iteration of `for _ in 0..n`, on a copy of the root
Iteration(root, checks) ==
    LET selected == Descend(root)
        new_node == MakeNode(Some(selected), selected.game_state)
        expanded == ExpandLoop(new_node, new_node.game_state.possible_actions, 1,
                               selected.children, checks)
    IN  [node |-> [selected EXCEPT !.children = expanded.children],
         panicked |-> expanded.panicked]

\* lines 460-463: max_by over the scores; the last of several equal maxima
RECURSIVE MaxByScore(_, _, _)
MaxByScore(children, i, best) ==
    IF i > Len(children) THEN best
    ELSE MaxByScore(children, i + 1,
                    IF children[i].score >= best.score THEN children[i] ELSE best)

----------------------------------------------------------------------------
(* Turn input: what main parses from the host each turn, lines 506-581.    *)
(* The host lists only legal actions: an action names a tree of mine that  *)
(* exists, of a size the action applies to.                                *)

RECURSIVE SortedCells(_)
SortedCells(S) ==
    IF S = {} THEN <<>>
    ELSE LET c == CHOOSE x \in S : \A y \in S : x <= y
         IN  <<c>> \o SortedCells(S \ {c})

\* a tree line: cell_index, size, is_mine, is_dormant (lines 549-552)
TreeLine == [size : 0 .. MaxSize, is_mine : BOOLEAN, is_dormant : {FALSE}]

\* the tree lists of a turn: at most MaxTrees trees, on distinct cells, by cell
TreeLists ==
    UNION {
        {[k \in 1 .. Cardinality(S) |->
            [cell_index |-> SortedCells(S)[k],
             size |-> f[SortedCells(S)[k]].size,
             is_mine |-> f[SortedCells(S)[k]].is_mine,
             is_dormant |-> f[SortedCells(S)[k]].is_dormant]] : f \in [S -> TreeLine]}
        : S \in {T \in SUBSET Cells : Cardinality(T) <= MaxTrees}}

HasTree(trees, c) == \E i \in 1 .. Len(trees) : trees[i].cell_index = c

LegalActions(trees) ==
    {Wait}
    \cup {Grow(trees[i].cell_index) :
            i \in {j \in 1 .. Len(trees) : trees[j].is_mine /\ trees[j].size < MaxSize}}
    \cup {Complete(trees[i].cell_index) :
            i \in {j \in 1 .. Len(trees) : trees[j].is_mine /\ trees[j].size = MaxSize}}
    \cup {Seed(trees[i].cell_index, t) :
            i \in {j \in 1 .. Len(trees) : trees[j].is_mine /\ trees[j].size > 0},
            t \in {c \in Cells : ~HasTree(trees, c)}}

\* the legal-action lists of a turn: at most MaxActions distinct legal actions
ActionLists(trees) ==
    UNION {
        {q \in [1 .. k -> LegalActions(trees)] : \A i, j \in 1 .. k : i # j => q[i] # q[j]}
        : k \in 0 .. MaxActions}

Days == {0, 3}
NutrientValues == {20}
SunValues == {0, 10, 254}
OppSunValues == {0, 10}
ScoreValues == {0}

----------------------------------------------------------------------------
(* The program: main's turn loop calling choose_action / run_mcts *)

Init ==
    /\ overflow_checks \in BOOLEAN
    /\ pc = "read"
    /\ game_state = [NewGameState EXCEPT !.cells = BoardCells]
    /\ root_node = MakeNode(None, NewGameState)
    /\ node = MakeNode(None, NewGameState)
    /\ iter = 0
    /\ n = 0
    /\ result = None
    /\ st_in = NewGameState
    /\ st_after = NewGameState
    /\ st_out = NewGameState
    /\ st_action = None
    /\ st_init = NewGameState
    /\ st_completes = 0
    /\ st_len = 0
    /\ st_panicked = FALSE
    /\ fn_args = None
    /\ fn_ret = None

\* main, lines 506-583: read one turn's snapshot, then enter run_mcts
\* (lines 422-431).  Each tree's is_shadowed flag is computed at line 553,
\* while game_state.trees still holds the previous turn's trees.
ReadTurn ==
    /\ pc = "read"
    /\ \E day \in Days, nutrients \in NutrientValues, sun \in SunValues,
          score \in ScoreValues, opp_sun \in OppSunValues, opp_score \in ScoreValues,
          lines \in TreeLists, budget \in 0 .. MaxIter :
        \E possible_actions \in ActionLists(lines) :
            LET scalars == [game_state EXCEPT !.day = day, !.nutrients = nutrients,
                                              !.my_sun = sun, !.my_score = score,
                                              !.opp_sun = opp_sun, !.opp_score = opp_score,
                                              !.opponent_is_waiting = FALSE]
                trees == [k \in 1 .. Len(lines) |->
                            [cell_index |-> lines[k].cell_index,
                             size |-> lines[k].size,
                             is_mine |-> lines[k].is_mine,
                             is_dormant |-> lines[k].is_dormant,
                             is_shadowed |-> is_shadowed(scalars, lines[k].cell_index)]]
                snapshot == [scalars EXCEPT !.trees = trees,
                                            !.possible_actions = possible_actions]
            IN  /\ game_state' = snapshot
                /\ root_node' = MakeNode(None, snapshot)
                /\ n' = budget
    /\ iter' = 0
    /\ pc' = "search"
    /\ UNCHANGED <<overflow_checks, node, result, applyVars, fnVars>>

\* run_mcts, lines 433-457: one iteration of the loop.  The iteration works on
\* a copy of mcts.root_node, which it leaves as it was.
Iterate ==
    /\ pc = "search"
    /\ iter < n
    /\ LET it == Iteration(root_node, overflow_checks)
       IN  /\ node' = it.node
           /\ pc' = IF it.panicked THEN "overflow_panic" ELSE "search"
    /\ iter' = iter + 1
    /\ UNCHANGED <<overflow_checks, game_state, root_node, n, result, applyVars, fnVars>>

\* run_mcts, lines 459-465, and the return to main: .max_by(..).unwrap() panics
\* when the root has no children
Finish ==
    /\ pc = "search"
    /\ iter = n
    /\ IF Len(root_node.children) = 0
       THEN /\ pc' = "unwrap_panic"
            /\ result' = None
       ELSE /\ pc' = "read"
            /\ result' = MaxByScore(root_node.children, 1, root_node.children[1]).action
    /\ UNCHANGED <<overflow_checks, game_state, root_node, node, iter, n, applyVars, fnVars>>

Next == ReadTurn \/ Iterate \/ Finish

Spec == Init /\ [][Next]_vars

----------------------------------------------------------------------------
(* apply_action on its own: a caller that holds a GameState, passes it to  *)
(* apply_action by &mut and goes on from the returned state, as run_mcts   *)
(* does at line 453.                                                       *)

\* the forests of a GameState: a tree list with any is_shadowed flags
Forests ==
    UNION {
        {[k \in 1 .. Len(lines) |->
            [cell_index |-> lines[k].cell_index,
             size |-> lines[k].size,
             is_mine |-> lines[k].is_mine,
             is_dormant |-> lines[k].is_dormant,
             is_shadowed |-> k \in shadowed]] : shadowed \in SUBSET (1 .. Len(lines))}
        : lines \in TreeLists}

\* the host's legal-action list: WAIT, then each tree's actions by cell
RECURSIVE HostActions(_, _)
HostActions(trees, i) ==
    IF i > Len(trees) THEN <<>>
    ELSE LET t == trees[i]
             free == SortedCells({c \in Cells : ~HasTree(trees, c)})
             own == IF ~t.is_mine THEN <<>>
                    ELSE (IF t.size < MaxSize THEN <<Grow(t.cell_index)>>
                                              ELSE <<Complete(t.cell_index)>>)
                         \o (IF t.size > 0
                             THEN [k \in 1 .. Len(free) |-> Seed(t.cell_index, free[k])]
                             ELSE <<>>)
         IN  own \o HostActions(trees, i + 1)

ApplyStates ==
    {[NewGameState EXCEPT !.cells = BoardCells, !.day = 0, !.nutrients = 20,
                          !.my_sun = sun, !.opp_sun = opp_sun, !.trees = trees,
                          !.possible_actions = <<Wait>> \o HostActions(trees, 1)] :
        sun \in {10, 254}, opp_sun \in {0, 254}, trees \in Forests}

ApplyInit ==
    /\ overflow_checks \in BOOLEAN
    /\ pc = "read"
    /\ game_state = NewGameState
    /\ root_node = MakeNode(None, NewGameState)
    /\ node = MakeNode(None, NewGameState)
    /\ iter = 0
    /\ n = 0
    /\ result = None
    /\ st_init \in ApplyStates
    /\ st_in = st_init
    /\ st_after = st_init
    /\ st_out = st_init
    /\ st_action = None
    /\ st_completes = 0
    /\ st_len = 0
    /\ st_panicked = FALSE
    /\ fn_args = None
    /\ fn_ret = None

\* state = apply_action(&mut state, action), for a legal action of the state
ApplyStep ==
    /\ st_len < MaxChain
    /\ ~st_panicked
    /\ \E i \in 1 .. Len(st_out.possible_actions) :
          LET action == st_out.possible_actions[i]
              applied == apply_action(st_out, action, overflow_checks)
          IN  /\ st_in' = st_out
              /\ st_after' = applied.arg
              /\ st_out' = IF applied.panicked THEN st_out ELSE applied.ret
              /\ st_panicked' = applied.panicked
              /\ st_action' = Some(action)
              /\ st_completes' =
                    IF action.action_type = "Complete" THEN st_completes + 1
                                                       ELSE st_completes
    /\ st_len' = st_len + 1
    /\ UNCHANGED <<overflow_checks, mctsVars, st_init, fnVars>>

ApplyNext == ApplyStep

ApplySpec == ApplyInit /\ [][ApplyNext]_vars

----------------------------------------------------------------------------
(* Claims about run_mcts, checked under Spec *)

\* run_mcts has come to its end: it returned an action to main, or it
\* panicked at the unwrap of line 463
SearchEnded == pc = "unwrap_panic" \/ (pc = "read" /\ result # None)

FirstLegalOrWait(gs) ==
    IF Len(gs.possible_actions) = 0 THEN Wait ELSE gs.possible_actions[1]

\* C2: when the search ends with a root that has no children, run_mcts does
\* not fault and returns the first legal action, or Wait when the
\* legal-action list is empty.
C2_NoChildrenFallback ==
    (SearchEnded /\ Len(root_node.children) = 0)
        => /\ pc = "read"
           /\ result = Some(FirstLegalOrWait(game_state))

\* the scenario of C3: one size-3 tree of mine on cell 0, nutrients 20,
\* legal actions [Complete(0), Wait]
CompleteScenario ==
    /\ Len(game_state.trees) = 1
    /\ game_state.trees[1].cell_index = 0
    /\ game_state.trees[1].size = 3
    /\ game_state.trees[1].is_mine
    /\ game_state.nutrients = 20
    /\ game_state.possible_actions = <<Complete(0), Wait>>

\* C3: in the scenario above run_mcts with any budget n >= 1 returns
\* Complete(0).
C3_SelectsComplete ==
    (CompleteScenario /\ n >= 1 /\ pc # "search") => result = Some(Complete(0))

\* C4: once an iteration budget n >= 1 is exhausted on a snapshot with legal
\* actions, the action run_mcts returns is the action of a root child whose
\* visit count is the highest among the root's children.
C4_ReturnsMostVisitedChild ==
    (SearchEnded /\ n >= 1 /\ Len(game_state.possible_actions) >= 1) =>
        \E i \in 1 .. Len(root_node.children) :
            /\ result = root_node.children[i].action
            /\ \A j \in 1 .. Len(root_node.children) :
                  root_node.children[j].visit_count <= root_node.children[i].visit_count

----------------------------------------------------------------------------
(* Claims about apply_action, checked under ApplySpec *)

Called == st_action # None
Returned == st_action # None /\ ~st_panicked

ActionsOf(gs) == {gs.possible_actions[i] : i \in 1 .. Len(gs.possible_actions)}

\* two calls on the same place, a then b: the second call returns what it
\* returns on the untouched state
OrderIndependent(gs, checks) ==
    \A a, b \in ActionsOf(gs) :
        LET first == apply_action(gs, a, checks)
            second == apply_action(first.arg, b, checks)
            alone == apply_action(gs, b, checks)
        IN  (~first.panicked) =>
                (second.ret = alone.ret /\ second.panicked = alone.panicked)

\* C5: apply_action never mutates its input: after the call the state passed
\* in is field for field what it was before, so applying two actions to the
\* same state in either order returns the same two results.
C5_InputNotMutated ==
    Called => (st_after = st_in /\ OrderIndependent(st_in, overflow_checks))

\* a Wait was applied that changed the suns in the returned state
C5_Witness ==
    /\ Returned
    /\ st_action = Some(Wait)
    /\ st_out.my_sun # st_in.my_sun
    /\ st_out.opp_sun # st_in.opp_sun

\* the sum of the sizes of one player's unshadowed trees
RECURSIVE Income(_, _, _)
Income(trees, mine, i) ==
    IF i > Len(trees) THEN 0
    ELSE (IF trees[i].is_mine = mine /\ ~trees[i].is_shadowed THEN trees[i].size ELSE 0)
         + Income(trees, mine, i + 1)

\* C6: applying Wait leaves the forest, the scores and the nutrients as they
\* are and adds to each player's sun the sizes of that player's unshadowed
\* trees.
C6_WaitSettlesIncome ==
    (Called /\ st_action = Some(Wait)) =>
        /\ ~st_panicked
        /\ st_out.trees = st_in.trees
        /\ st_out.my_sun = st_in.my_sun + Income(st_in.trees, TRUE, 1)
        /\ st_out.opp_sun = st_in.opp_sun + Income(st_in.trees, FALSE, 1)
        /\ st_out.my_score = st_in.my_score
        /\ st_out.opp_score = st_in.opp_score
        /\ st_out.nutrients = st_in.nutrients

GrowCost(size) == IF size = 1 THEN 1 ELSE IF size = 2 THEN 3 ELSE 7

\* C7: applying Grow(c) to a tree of size k < 3 at c returns a state where
\* that tree has size k + 1 and is dormant, my sun is reduced by the cost of
\* the new size (1 -> 1, 2 -> 3, 3 -> 7), and every other tree is unchanged.
C7_GrowAddsOneSize ==
    \A c \in Cells :
        (Returned /\ st_action = Some(Grow(c))) =>
            LET before == FindByCell(st_in.trees, c, DefaultTree)
                after == FindByCell(st_out.trees, c, DefaultTree)
            IN  /\ after.size = before.size + 1
                /\ after.is_dormant
                /\ st_out.my_sun = st_in.my_sun - GrowCost(after.size)
                /\ \A i \in 1 .. Len(st_in.trees) :
                      st_in.trees[i].cell_index # c =>
                          \E j \in 1 .. Len(st_out.trees) : st_out.trees[j] = st_in.trees[i]

\* C8: applying Complete(c) to a size-3 tree at c returns a state with no
\* tree on c, a strictly larger score of mine, and my sun reduced by 4.
C8_CompleteHarvests ==
    \A c \in Cells :
        (Returned /\ st_action = Some(Complete(c))) =>
            /\ ~HasTree(st_out.trees, c)
            /\ st_out.my_score > st_in.my_score
            /\ st_out.my_sun = st_in.my_sun - 4

\* C9: along a chain of apply_action calls the nutrient pool never
\* increases and goes down by one at each Complete and at no other action:
\* after k Complete actions it is its initial value minus k.
C9_NutrientsCountCompletes ==
    /\ st_out.nutrients = st_init.nutrients - st_completes
    /\ st_out.nutrients <= st_in.nutrients

\* C10: every applied action advances the day by one.
C10_DayAdvances == Returned => st_out.day = st_in.day + 1

----------------------------------------------------------------------------
(* is_shadowed on its own: the call of line 553, for any day, any forest   *)
(* on a line of ShadowLen cells (direction 0 leads to the next cell,       *)
(* direction 3 to the previous one) and any cell of it.                    *)

ShadowCells == 0 .. ShadowLen - 1

ShadowBoard ==
    [k \in 1 .. ShadowLen |->
        [index |-> k - 1, richness |-> 3 - ((k - 1) % 3),
         neighbors |-> [d \in 1 .. 6 |->
                          IF d = 1 THEN (IF k < ShadowLen THEN k ELSE -1)
                          ELSE IF d = 4 THEN k - 2
                          ELSE -1]]]

ShadowForests ==
    UNION {
        {[k \in 1 .. Cardinality(S) |->
            [cell_index |-> SortedCells(S)[k], size |-> f[SortedCells(S)[k]],
             is_mine |-> TRUE, is_dormant |-> FALSE, is_shadowed |-> FALSE]]
            : f \in [S -> 0 .. MaxSize]}
        : S \in {T \in SUBSET ShadowCells : Cardinality(T) <= ShadowTrees}}

ShadowStates ==
    {[NewGameState EXCEPT !.cells = ShadowBoard, !.day = day, !.trees = trees] :
        day \in 0 .. 5, trees \in ShadowForests}

IdleInit ==
    /\ overflow_checks = FALSE
    /\ pc = "read"
    /\ game_state = NewGameState
    /\ root_node = MakeNode(None, NewGameState)
    /\ node = MakeNode(None, NewGameState)
    /\ iter = 0
    /\ n = 0
    /\ result = None
    /\ st_in = NewGameState
    /\ st_after = NewGameState
    /\ st_out = NewGameState
    /\ st_action = None
    /\ st_init = NewGameState
    /\ st_completes = 0
    /\ st_len = 0
    /\ st_panicked = FALSE

ShadowInit ==
    /\ IdleInit
    /\ fn_args \in [gs : ShadowStates, cell_index : ShadowCells]
    /\ fn_ret = None

\* let is_shadowed = is_shadowed(&game_state, cell_index)
ShadowCall ==
    /\ fn_ret = None
    /\ fn_ret' = Some(is_shadowed(fn_args.gs, fn_args.cell_index))
    /\ UNCHANGED <<overflow_checks, mctsVars, applyVars, fn_args>>

ShadowNext == ShadowCall

ShadowSpec == ShadowInit /\ [][ShadowNext]_vars

----------------------------------------------------------------------------
(* Claims about is_shadowed, checked under ShadowSpec *)

ShadowReturned == fn_ret # None

\* the tree is_shadowed is asked about
OriginTree == FindByCell(fn_args.gs.trees, fn_args.cell_index, DefaultTree)

SunDirection(day) == ((day % 6) + 3) % 6

\* the cell k hops from c along the neighbor links of direction d; -1 once
\* the walk has left the board
RECURSIVE HopCell(_, _, _, _)
HopCell(cells, c, d, k) ==
    IF k = 0 THEN c
    ELSE LET p == HopCell(cells, c, d, k - 1)
         IN  IF p = -1 THEN -1
             ELSE FindCell(cells, p, DefaultCell).neighbors[d + 1]

\* some hop k in 1..hops stays on the board and lands on a tree of at least
\* the given size
BlockedWithin(gs, c, hops, size) ==
    \E k \in 1 .. hops :
        LET h == HopCell(gs.cells, c, SunDirection(gs.day), k)
        IN  /\ h # -1
            /\ \E i \in 1 .. Len(gs.trees) :
                  gs.trees[i].cell_index = h /\ gs.trees[i].size >= size

\* C11: for a tree of size s in 1..3 on cell c, is_shadowed returns true
\* exactly when, walking from c along direction ((day mod 6) + 3) mod 6, some
\* hop k <= s lands on a tree of size >= s with every earlier hop on the
\* board.
C11_ShadowWalk ==
    (ShadowReturned /\ OriginTree.cell_index # -1 /\ OriginTree.size \in 1 .. 3) =>
        (fn_ret[1] <=> BlockedWithin(fn_args.gs, fn_args.cell_index,
                                     OriginTree.size, OriginTree.size))

\* a size-3 tree shadowed by a size-3 tree three hops away, behind two
\* smaller trees
C11_Witness ==
    /\ fn_ret = Some(TRUE)
    /\ OriginTree.cell_index # -1
    /\ OriginTree.size = 3
    /\ ~BlockedWithin(fn_args.gs, fn_args.cell_index, 2, 3)
    /\ BlockedWithin(fn_args.gs, fn_args.cell_index, 3, 3)

\* the state with the tree on cell c given another size
WithSize(gs, c, size) ==
    [gs EXCEPT !.trees = [i \in 1 .. Len(gs.trees) |->
                            IF gs.trees[i].cell_index = c
                            THEN [gs.trees[i] EXCEPT !.size = size]
                            ELSE gs.trees[i]]]

SmallerTreeShadowed ==
    /\ fn_ret = Some(TRUE)
    /\ OriginTree.cell_index # -1
    /\ OriginTree.size < 3

\* the hops is_shadowed walks for a tree of the given size: the first hop is
\* always taken
HopsWalked(size) == IF size > 1 THEN size ELSE 1

\* C12 as stated: if is_shadowed reports a tree of size s < 3 as shadowed,
\* it reports a size-3 tree on the same cell, with the same day and the same
\* other trees, as shadowed too.  Stated for the sizes 1 and 2: what
\* is_shadowed does for a size-0 tree is the subject of C16.
C12_MonotoneInSize ==
    (SmallerTreeShadowed /\ OriginTree.size >= 1) =>
        is_shadowed(WithSize(fn_args.gs, fn_args.cell_index, 3), fn_args.cell_index)

\* C12 as amended: if is_shadowed reports a tree of size s < 3 as shadowed
\* and a size-3 tree stands within the hops walked for it, it reports a
\* size-3 tree on the same cell as shadowed too.
C12_MonotoneUnderSize3 ==
    (/\ SmallerTreeShadowed
     /\ BlockedWithin(fn_args.gs, fn_args.cell_index, HopsWalked(OriginTree.size), 3))
        => is_shadowed(WithSize(fn_args.gs, fn_args.cell_index, 3), fn_args.cell_index)

\* a size-2 tree shadowed by a size-3 tree two hops away
C12_Witness ==
    /\ SmallerTreeShadowed
    /\ OriginTree.size = 2
    /\ ~BlockedWithin(fn_args.gs, fn_args.cell_index, 1, 2)
    /\ BlockedWithin(fn_args.gs, fn_args.cell_index, 2, 3)
    /\ is_shadowed(WithSize(fn_args.gs, fn_args.cell_index, 3), fn_args.cell_index)

----------------------------------------------------------------------------
(* Claims about the iterations of run_mcts, checked under Spec *)

\* iterations have completed and the loop is still running or about to end
Iterated == pc = "search" /\ iter >= 1

\* C13: every iteration backpropagates: after k completed iterations the
\* root's visit count is k, and every child the latest iteration created
\* has been visited.
C13_RootVisitsCountIterations ==
    pc = "search" =>
        /\ root_node.visit_count = iter
        /\ \A i \in 1 .. Len(node.children) : node.children[i].visit_count >= 1

\* C14: after the first iteration on a root with a non-empty legal-action
\* list the root has at least one child.
C14_RootGetsChildren ==
    (Iterated /\ Len(game_state.possible_actions) >= 1) => Len(root_node.children) >= 1

\* C15: the score recorded for a new child is the evaluation of a state on
\* the terminal day: evaluate_state is applied (line 454) to the child's
\* state, so that state is on day 24.
C15_ScoresTerminalStates ==
    \A i \in 1 .. Len(node.children) : node.children[i].game_state.day >= TerminalDay

----------------------------------------------------------------------------
(* More claims about is_shadowed, checked under ShadowSpec *)

\* C16: a size-0 tree receives no shadow check: is_shadowed returns false
\* for a cell holding a size-0 tree, whatever trees stand on the neighboring
\* cells in the sun direction.
C16_SeedNotShadowed ==
    (ShadowReturned /\ OriginTree.cell_index # -1 /\ OriginTree.size = 0)
        => fn_ret = Some(FALSE)

----------------------------------------------------------------------------
(* get_best_node on its own: the call of line 437, for a node whose        *)
(* children hold any visit counts and scores.  A child's parent field is   *)
(* None or its own copy of a parent node, as struct Node declares it.      *)

ScoreSamples == {-ScoreScale, 0, ScoreScale}

ParentCopies ==
    {None} \cup {Some([MakeNode(None, NewGameState) EXCEPT !.visit_count = v]) :
                    v \in 0 .. MaxVisits}

ChildNodes ==
    {[MakeNode(parent, NewGameState) EXCEPT !.visit_count = v, !.score = sc,
                                            !.action = Some(Wait)] :
        parent \in ParentCopies, v \in 0 .. MaxVisits, sc \in ScoreSamples}

SelectNodes ==
    {[MakeNode(None, NewGameState) EXCEPT !.children = children] :
        children \in UNION {[1 .. k -> ChildNodes] : k \in 1 .. MaxChildren}}

SelectInit ==
    /\ IdleInit
    /\ fn_args \in SelectNodes
    /\ fn_ret = None

\* node = get_best_node(node)
SelectCall ==
    /\ fn_ret = None
    /\ fn_ret' = Some(get_best_node(fn_args))
    /\ UNCHANGED <<overflow_checks, mctsVars, applyVars, fn_args>>

SelectNext == SelectCall

SelectSpec == SelectInit /\ [][SelectNext]_vars

----------------------------------------------------------------------------
(* evaluate_state on its own: the call of line 454, for two states a and b *)
(* whose evaluations are compared.                                         *)

EvalScores == {0, 2, 300}
EvalSuns == {0, 1}

EvalForests ==
    {<<>>,
     <<[DefaultTree EXCEPT !.cell_index = 0, !.size = 1, !.is_mine = TRUE]>>,
     <<[DefaultTree EXCEPT !.cell_index = 0, !.size = 1, !.is_mine = FALSE]>>}

EvalStates ==
    {[NewGameState EXCEPT !.my_score = ms, !.opp_score = os, !.my_sun = sun,
                          !.opp_sun = osun, !.trees = trees] :
        ms \in EvalScores, os \in EvalScores, sun \in EvalSuns, osun \in EvalSuns,
        trees \in EvalForests}

EvalInit ==
    /\ IdleInit
    /\ fn_args \in [a : EvalStates, b : EvalStates]
    /\ fn_ret = None

\* new_node.score = evaluate_state(&new_node.game_state), for a and for b
EvalCall ==
    /\ fn_ret = None
    /\ fn_ret' = Some([a |-> evaluate_state(fn_args.a), b |-> evaluate_state(fn_args.b)])
    /\ UNCHANGED <<overflow_checks, mctsVars, applyVars, fn_args>>

EvalNext == EvalCall

EvalSpec == EvalInit /\ [][EvalNext]_vars

\* three times my lead: my score + sun / 3 minus the opponent's
Lead3(gs) == (3 * gs.my_score + gs.my_sun) - (3 * gs.opp_score + gs.opp_sun)

\* the range the claim gives the evaluation e of a state with that lead
InClaimedRange(lead3, e) ==
    /\ (lead3 > 0 /\ lead3 <= 15) => (e > ScoreScale \div 2 /\ e <= ScoreScale)
    /\ lead3 > 15 => e > ScoreScale
    /\ (lead3 < 0 /\ lead3 >= -15) => (e < -(ScoreScale \div 2) /\ e >= -ScoreScale)
    /\ lead3 < -15 => e < -ScoreScale
    /\ lead3 = 0 => (e > -(ScoreScale \div 2) /\ e <= ScoreScale \div 2)

\* C18: a lead in (0, 5] evaluates into (0.5, 1.0], a lead above 5 above
\* 1.0, the opponent's leads into the mirrored negative ranges and a tie
\* strictly between the two; so a state in which I lead evaluates higher
\* than a tied state, and a tied state higher than one the opponent leads.
C18_LeadOrdersEvaluation ==
    fn_ret # None =>
        /\ InClaimedRange(Lead3(fn_args.a), fn_ret[1].a)
        /\ (Lead3(fn_args.a) > 0 /\ Lead3(fn_args.b) = 0) => fn_ret[1].a > fn_ret[1].b
        /\ (Lead3(fn_args.a) = 0 /\ Lead3(fn_args.b) < 0) => fn_ret[1].a > fn_ret[1].b

----------------------------------------------------------------------------
(* The children an iteration pushes (lines 451-456) *)

\* C19: after an expansion every child of the expanded node holds the state
\* apply_action gives for the parent's state and that child's own action,
\* whatever the other legal actions and their order.
C19_ChildHoldsOwnAction ==
    Iterated =>
        \A i \in 1 .. Len(node.children) :
            /\ node.children[i].action # None
            /\ node.children[i].game_state =
                 apply_action(node.game_state, node.children[i].action[1],
                              overflow_checks).ret

(* The shadow flags main stores on the trees it reads (lines 541-564) *)

\* C20: the is_shadowed flag of every tree of a turn's snapshot is what
\* is_shadowed gives for that tree against the same turn's forest and day.
\* (Stated for the trees of size 1 and more; seeds are the subject of C16.)
C20_FlagMatchesForest ==
    pc = "search" =>
        \A i \in 1 .. Len(game_state.trees) :
            game_state.trees[i].size >= 1 =>
                game_state.trees[i].is_shadowed
                    = is_shadowed(game_state, game_state.trees[i].cell_index)

----------------------------------------------------------------------------
(* The u8 sums of calculate_sun_points during the search (lines 195-221) *)

\* the state the i-th apply_action call of an expansion was given: the
\* selected node's state, then the state the call before it returned
ExpansionInput(i) ==
    IF i = 1 THEN node.game_state ELSE node.children[i - 1].game_state

\* C21: from every parsed turn snapshot, through every apply_action call the
\* search makes, the sums calculate_sun_points computes stay within 0..255:
\* no call panics on an overflowing addition and no sum wraps around.
C21_SunSumsFitU8 ==
    /\ pc # "overflow_panic"
    /\ Iterated =>
         \A i \in 1 .. Len(node.children) :
            node.children[i].action = Some(Wait) =>
                ~calculate_sun_points(ExpansionInput(i)).overflow

====
